---- MODULE Spec2Model ----
(***************************************************************************)
(* Model of the access-log middleware of src/middleware/logger.rs:         *)
(* the format compiler (Format::new), the three render phases of a token   *)
(* (render_request, render_response, render), the Logger builder, the      *)
(* LoggerMiddleware service, the LoggerResponse future and the StreamLog   *)
(* body wrapper whose drop emits the log line.                             *)
(*                                                                         *)
(* A string is a sequence of one-character strings, so that slicing,       *)
(* concatenation and formatting are computed and not assumed.              *)
(***************************************************************************)
EXTENDS Integers, Sequences, FiniteSets, TLC

(***************************************************************************)
(* Strings                                                                 *)
(***************************************************************************)

\* s[a..b-1] of the source, with 1-based positions: the characters a..b-1.
Slice(s, a, b) == SubSeq(s, a, b - 1)

RECURSIVE Flatten(_)
\* The concatenation of a sequence of strings: the writes made to a Formatter.
Flatten(ss) == IF ss = <<>> THEN <<>> ELSE Head(ss) \o Flatten(Tail(ss))

Digit(d) == <<"0", "1", "2", "3", "4", "5", "6", "7", "8", "9">>[d + 1]

RECURSIVE ToDecimal(_)
\* Display of an unsigned integer: its decimal digits, no padding.
ToDecimal(n) == IF n < 10 THEN <<Digit(n)>> ELSE ToDecimal(n \div 10) \o <<Digit(n % 10)>>

RECURSIVE Pad(_, _)
\* n in decimal, zero-padded on the left to w digits.
Pad(n, w) == IF w = 0 THEN <<>> ELSE Pad(n \div 10, w - 1) \o <<Digit(n % 10)>>

Sentinel == <<"-">>

(***************************************************************************)
(* FormatText                                                              *)
(***************************************************************************)

NoFn == "None"

\* A FormatText value: k the variant, s its String / HeaderName payload,
\* f the Option<CustomRequestFn> of CustomRequest.
Tok(k, s, f) == [k |-> k, s |-> s, f |-> f]
Str(s) == Tok("Str", s, NoFn)
Unit(k) == Tok(k, <<>>, NoFn)

\* [A-Za-z0-9\-_]
LabelChars ==
    {"A","B","C","D","E","F","G","H","I","J","K","L","M","N","O","P","Q","R","S","T","U","V","W","X","Y","Z",
     "a","b","c","d","e","f","g","h","i","j","k","l","m","n","o","p","q","r","s","t","u","v","w","x","y","z",
     "0","1","2","3","4","5","6","7","8","9","-","_"}

\* [%atPrUsbTD]
SingleChars == {"%", "a", "t", "P", "r", "U", "s", "b", "T", "D"}

UpperCase ==
    {"A","B","C","D","E","F","G","H","I","J","K","L","M","N","O","P","Q","R","S","T","U","V","W","X","Y","Z"}

LowerOf ==
    [A |-> "a", B |-> "b", C |-> "c", D |-> "d", E |-> "e", F |-> "f", G |-> "g", H |-> "h", I |-> "i",
     J |-> "j", K |-> "k", L |-> "l", M |-> "m", N |-> "n", O |-> "o", P |-> "p", Q |-> "q", R |-> "r",
     S |-> "s", T |-> "t", U |-> "u", V |-> "v", W |-> "w", X |-> "x", Y |-> "y", Z |-> "z"]

\* The longest header name HeaderName::try_from accepts: a name of 65536
\* characters or more is an Err(InvalidHeaderName).
MaxHeaderNameLen == 65535

\* HeaderName::try_from(&str), a Result: Ok of the name in lower case, or Err
\* when the name is too long.  Every character of LabelChars is a legal
\* header-name character, and a label is never empty.
HeaderName(s) ==
    IF Len(s) > MaxHeaderNameLen
    THEN [ok |-> FALSE, v |-> <<>>]
    ELSE [ok |-> TRUE,
          v |-> [i \in 1..Len(s) |-> IF s[i] \in UpperCase THEN LowerOf[s[i]] ELSE s[i]]]

(***************************************************************************)
(* Format::new: the regex                                                  *)
(*   %(\{([A-Za-z0-9\-_]+)\}([aioe]|xi)|[%atPrUsbTD]?)                    *)
(* and the loop over its successive matches.                               *)
(***************************************************************************)

RECURSIVE LabelEnd(_, _)
\* The first position >= i of s that holds no label character (Len(s)+1 at the end).
LabelEnd(s, i) == IF i <= Len(s) /\ s[i] \in LabelChars THEN LabelEnd(s, i + 1) ELSE i

CharAt(s, i) == IF i >= 1 /\ i <= Len(s) THEN s[i] ELSE ""

\* The match of the first alternative at a "%" at pos, if it matches:
\* \{ label+ \} then [aioe] or xi.
BraceMatch(s, pos) ==
    LET le == LabelEnd(s, pos + 2)
        ok == CharAt(s, pos + 1) = "{" /\ le > pos + 2 /\ CharAt(s, le) = "}"
        c1 == CharAt(s, le + 1)
        c2 == CharAt(s, le + 2)
        sfx == IF c1 \in {"a", "i", "o", "e"} THEN <<c1>>
               ELSE IF c1 = "x" /\ c2 = "i" THEN <<"x", "i">>
               ELSE <<>>
    IN  [ok |-> ok /\ sfx # <<>>,
         key |-> IF ok THEN Slice(s, pos + 2, le) ELSE <<>>,
         sfx |-> sfx,
         end |-> le + 1 + Len(sfx)]

\* MatchAt with "%" left out of the character class of the second alternative.
MatchAt_no_escape(s, pos) ==
    LET b == BraceMatch(s, pos)
        c == CharAt(s, pos + 1)
    IN  IF b.ok
        THEN [brace |-> TRUE, key |-> b.key, sfx |-> b.sfx,
              g1 |-> Slice(s, pos + 1, b.end), end |-> b.end]
        ELSE IF c \in SingleChars \ {"%"}
        THEN [brace |-> FALSE, key |-> <<>>, sfx |-> <<>>, g1 |-> <<c>>, end |-> pos + 2]
        ELSE [brace |-> FALSE, key |-> <<>>, sfx |-> <<>>, g1 |-> <<>>, end |-> pos + 1]

\* The leftmost-first match at a "%" at pos: [brace, key (group 2), sfx (group 3),
\* g1 (group 1), end (the position after the match)].  The second alternative
\* always matches, with or without its optional character.
MatchAt(s, pos) ==
    LET b == BraceMatch(s, pos)
        c == CharAt(s, pos + 1)
    IN  IF b.ok
        THEN [brace |-> TRUE, key |-> b.key, sfx |-> b.sfx,
              g1 |-> Slice(s, pos + 1, b.end), end |-> b.end]
        ELSE IF c \in SingleChars
        THEN [brace |-> FALSE, key |-> <<>>, sfx |-> <<>>, g1 |-> <<c>>, end |-> pos + 2]
        ELSE [brace |-> FALSE, key |-> <<>>, sfx |-> <<>>, g1 |-> <<>>, end |-> pos + 1]

RECURSIVE NextPercent(_, _)
\* The start of the next match at or after position i: the next "%"; 0 when none.
NextPercent(s, i) ==
    IF i > Len(s) THEN 0 ELSE IF s[i] = "%" THEN i ELSE NextPercent(s, i + 1)

\* The token of a brace-form capture; "unreachable" stands for unreachable!()
\* and "unwrap" for the panic of HeaderName::try_from(key).unwrap() on an Err.
BraceToken(key, sfx) ==
    IF sfx = <<"a">> THEN (IF key = <<"r">> THEN Unit("RealIpRemoteAddr") ELSE Unit("unreachable"))
    ELSE IF sfx = <<"i">>
    THEN (IF HeaderName(key).ok THEN Tok("RequestHeader", HeaderName(key).v, NoFn)
          ELSE Unit("unwrap"))
    ELSE IF sfx = <<"o">>
    THEN (IF HeaderName(key).ok THEN Tok("ResponseHeader", HeaderName(key).v, NoFn)
          ELSE Unit("unwrap"))
    ELSE IF sfx = <<"e">> THEN Tok("EnvironHeader", key, NoFn)
    ELSE IF sfx = <<"x", "i">> THEN Tok("CustomRequest", key, NoFn)
    ELSE Unit("unreachable")

\* The token of a capture without a key: group 1 decides, and the default arm
\* keeps group 1 as text.
SingleToken(g1) ==
    IF g1 = <<"%">> THEN Unit("Percent")
    ELSE IF g1 = <<"a">> THEN Unit("RemoteAddr")
    ELSE IF g1 = <<"t">> THEN Unit("RequestTime")
    ELSE IF g1 = <<"r">> THEN Unit("RequestLine")
    ELSE IF g1 = <<"s">> THEN Unit("ResponseStatus")
    ELSE IF g1 = <<"b">> THEN Unit("ResponseSize")
    ELSE IF g1 = <<"U">> THEN Unit("UrlPath")
    ELSE IF g1 = <<"T">> THEN Unit("Time")
    ELSE IF g1 = <<"D">> THEN Unit("TimeMillis")
    ELSE Str(g1)

RECURSIVE FormatLoop(_, _, _)
\* for cap in fmt.captures_iter(s) { ... } and the tail after the loop; idx is the
\* position of the first character not yet consumed.
FormatLoop(s, idx, results) ==
    LET pos == NextPercent(s, idx)
    IN  IF pos = 0
        THEN (IF idx # Len(s) + 1 THEN Append(results, Str(Slice(s, idx, Len(s) + 1)))
              ELSE results)
        ELSE LET m == MatchAt(s, pos)
                 r1 == IF idx # pos THEN Append(results, Str(Slice(s, idx, pos))) ELSE results
                 t == IF m.brace THEN BraceToken(m.key, m.sfx) ELSE SingleToken(m.g1)
             IN  FormatLoop(s, m.end, Append(r1, t))

\* Format::new(s): panic is TRUE when the compilation hits unreachable!() or
\* unwraps the Err of an over-long header name.
FormatNew(s) ==
    LET r == FormatLoop(s, 1, <<>>)
        bad == \E i \in 1..Len(r) : r[i].k \in {"unreachable", "unwrap"}
    IN  [panic |-> bad, toks |-> IF bad THEN <<>> ELSE r]

(***************************************************************************)
(* The request, the response and the process environment, as far as the    *)
(* tokens read them.  A header map and the environment are functions from  *)
(* the names present; an Option is a record [some, v].                     *)
(***************************************************************************)

None == [some |-> FALSE, v |-> <<>>]
Some(v) == [some |-> TRUE, v |-> v]

\* A HeaderValue: to_str() is Ok(v) when valid, Err otherwise.
HVal(valid, v) == [valid |-> valid, v |-> v]

NoHeaders == [n \in {} |-> HVal(TRUE, <<>>)]

\* headers().get(name)
Get(headers, name) ==
    IF name \in DOMAIN headers THEN Some(headers[name]) ELSE [some |-> FALSE, v |-> HVal(FALSE, <<>>)]

\* The environment of the process: S is set, every other variable is unset.
Env == [n \in {<<"S">>} |-> <<"v">>]

\* env::var(name)
EnvVar(name) == IF name \in DOMAIN Env THEN Some(Env[name]) ELSE None

Callbacks == {"f", "g"}

\* CustomRequestFn::call: f and g are two user closures.
CallFn(f, req) == IF f = "f" THEN <<"f">> \o req.path ELSE <<"g">> \o req.method

\* The civil date of the day that is days after 1970-01-01, in the proleptic
\* Gregorian calendar: [y, m, d].
CivilFromDays(days) ==
    LET z == days + 719468
        era == z \div 146097
        doe == z - era * 146097
        yoe == (doe - doe \div 1460 + doe \div 36524 - doe \div 146096) \div 365
        doy == doe - (365 * yoe + yoe \div 4 - yoe \div 100)
        mp == (5 * doy + 2) \div 153
        m == IF mp < 10 THEN mp + 3 ELSE mp - 9
    IN  [y |-> yoe + era * 400 + (IF m <= 2 THEN 1 ELSE 0),
         m |-> m,
         d |-> doy - (153 * mp + 2) \div 5 + 1]

\* now.format("%Y-%m-%dT%H:%M:%S") of a timestamp t whole seconds after the
\* epoch, for the years 1970 to 9999: the UTC date and time of day, every
\* field zero-padded.
FormatTimestamp(t) ==
    LET date == CivilFromDays(t \div 86400)
        sod == t % 86400
    IN  Pad(date.y, 4) \o <<"-">> \o Pad(date.m, 2) \o <<"-">> \o Pad(date.d, 2) \o <<"T">>
        \o Pad(sod \div 3600, 2) \o <<":">> \o Pad((sod % 3600) \div 60, 2) \o <<":">>
        \o Pad(sod % 60, 2)

\* format_args!("{:.6}", x) of a value x = whole + 0/10^6, negative or not.
Fixed6(whole) ==
    (IF whole < 0 THEN <<"-">> ELSE <<>>)
        \o ToDecimal(IF whole < 0 THEN -whole ELSE whole) \o <<".">> \o Pad(0, 6)

\* HeaderText with a value that is not valid text rendered as the empty string.
HeaderText_empty_on_invalid(headers, name) ==
    LET val == Get(headers, name)
    IN  IF val.some THEN val.v.v ELSE Sentinel

\* The text of a header lookup: the value, or "-" when absent or not valid text.
HeaderText(headers, name) ==
    LET val == Get(headers, name)
    IN  IF val.some THEN (IF val.v.valid THEN val.v.v ELSE Sentinel) ELSE Sentinel

\* FormatText::render_request: the token after the request phase.
render_request(ft, now, req) ==
    IF ft.k = "RequestLine"
    THEN (IF req.query = <<>>
          THEN Str(req.method \o <<" ">> \o req.path \o <<" ">> \o req.version)
          ELSE Str(req.method \o <<" ">> \o req.path \o <<"?">> \o req.query
                   \o <<" ">> \o req.version))
    ELSE IF ft.k = "UrlPath" THEN Str(req.path)
    ELSE IF ft.k = "RequestTime" THEN Str(FormatTimestamp(now))
    ELSE IF ft.k = "RequestHeader" THEN Str(HeaderText(req.headers, ft.s))
    ELSE IF ft.k = "RemoteAddr"
    THEN (IF req.peer.some THEN Str(req.peer.v) ELSE Str(Sentinel))
    ELSE IF ft.k = "RealIpRemoteAddr"
    THEN (IF req.realip.some THEN Str(req.realip.v) ELSE Str(Sentinel))
    ELSE IF ft.k = "CustomRequest"
    THEN (IF ft.f # NoFn THEN Str(CallFn(ft.f, req)) ELSE Str(Sentinel))
    ELSE ft

\* FormatText::render_response: the token after the response phase.
render_response(ft, res) ==
    IF ft.k = "ResponseStatus" THEN Str(ToDecimal(res.status))
    ELSE IF ft.k = "ResponseHeader" THEN Str(HeaderText(res.headers, ft.s))
    ELSE ft

\* FormatText::render: what the token writes to the formatter; now is the
\* reading of OffsetDateTime::now_utc() (in whole seconds, like entry_time).
render(ft, size, entry_time, now) ==
    IF ft.k = "Str" THEN ft.s
    ELSE IF ft.k = "Percent" THEN <<"%">>
    ELSE IF ft.k = "ResponseSize" THEN ToDecimal(size)
    ELSE IF ft.k = "Time" THEN Fixed6(now - entry_time)
    ELSE IF ft.k = "TimeMillis" THEN Fixed6((now - entry_time) * 1000)
    ELSE IF ft.k = "EnvironHeader"
    THEN (IF EnvVar(ft.s).some THEN EnvVar(ft.s).v ELSE Sentinel)
    ELSE <<>>

\* ResolveRequest that leaves %U for render.
ResolveRequest_keeps_path(toks, now, req) ==
    [i \in 1..Len(toks) |->
        IF toks[i].k = "UrlPath" THEN toks[i] ELSE render_request(toks[i], now, req)]

\* for unit in &mut format.0 { unit.render_request(now, &req) }
ResolveRequest(toks, now, req) == [i \in 1..Len(toks) |-> render_request(toks[i], now, req)]

\* for unit in &mut format.0 { unit.render_response(res.response()) }
ResolveResponse(toks, res) == [i \in 1..Len(toks) |-> render_response(toks[i], res)]

\* The units whose render reads the clock: %T and %D.
ClockKinds == {"Time", "TimeMillis"}

\* The number of clock-reading units among the first i units of toks.
ClockUnits(toks, i) == Cardinality({j \in 1..i : toks[j].k \in ClockKinds})

\* The reading render takes for unit i, when nows holds the readings of
\* OffsetDateTime::now_utc() in the order they are taken: every %T and %D
\* takes a reading of its own.
ReadingOf(toks, nows, i) ==
    IF toks[i].k \in ClockKinds THEN nows[ClockUnits(toks, i)] ELSE 0

\* RenderAll that writes the units last to first.
RenderAll_last_first(toks, size, entry_time, nows) ==
    [i \in 1..Len(toks) |->
        render(toks[Len(toks) + 1 - i], size, entry_time,
               ReadingOf(toks, nows, Len(toks) + 1 - i))]

\* The closure of StreamLog::drop: the writes of every unit, in order.
RenderAll(toks, size, entry_time, nows) ==
    [i \in 1..Len(toks) |-> render(toks[i], size, entry_time, ReadingOf(toks, nows, i))]

(***************************************************************************)
(* Exclusion: the exact-path HashSet and the RegexSet.  A pattern is a     *)
(* sequence of atoms, each a literal character, the class \w or one of the *)
(* two ends of a group; the match is unanchored, as RegexSet::is_match is. *)
(***************************************************************************)

\* A string holds the characters U+0020..U+00FF: ASCII and the Latin-1
\* Supplement.  These are the characters beyond ASCII among them that the
\* Unicode class \w has: the letters U+00AA, U+00B5 and U+00BA, and U+00C0
\* to U+00FF without the two signs U+00D7 and U+00F7.
LatinWordChars ==
    { "ª", "µ", "º", "À", "Á", "Â", "Ã", "Ä", "Å", "Æ", "Ç", "È", "É", "Ê", "Ë", "Ì",
      "Í", "Î", "Ï", "Ð", "Ñ", "Ò", "Ó", "Ô", "Õ", "Ö", "Ø", "Ù", "Ú", "Û", "Ü", "Ý",
      "Þ", "ß", "à", "á", "â", "ã", "ä", "å", "æ", "ç", "è", "é", "ê", "ë", "ì", "í",
      "î", "ï", "ð", "ñ", "ò", "ó", "ô", "õ", "ö", "ø", "ù", "ú", "û", "ü", "ý", "þ",
      "ÿ" }

\* The class \w of the regex crate is the Unicode word class: the ASCII
\* letters, digits and "_", and the word characters beyond ASCII.
WordChars == (LabelChars \ {"-"}) \cup LatinWordChars

\* The characters a path or a pattern is written in: U+0020..U+007E without
\* the grave accent U+0060, and U+00A0..U+00FF, each a string of one
\* character.
Chars ==
    { " ", "!", "\"", "#", "$", "%", "&", "'", "(", ")", "*", "+", ",", "-", ".", "/",
      "0", "1", "2", "3", "4", "5", "6", "7", "8", "9", ":", ";", "<", "=", ">", "?",
      "@", "A", "B", "C", "D", "E", "F", "G", "H", "I", "J", "K", "L", "M", "N", "O",
      "P", "Q", "R", "S", "T", "U", "V", "W", "X", "Y", "Z", "[", "\\", "]", "^", "_",
      "a", "b", "c", "d", "e", "f", "g", "h", "i", "j", "k", "l", "m", "n", "o",
      "p", "q", "r", "s", "t", "u", "v", "w", "x", "y", "z", "{", "|", "}", "~", " ",
      "¡", "¢", "£", "¤", "¥", "¦", "§", "¨", "©", "ª", "«", "¬", "­", "®", "¯", "°",
      "±", "²", "³", "´", "µ", "¶", "·", "¸", "¹", "º", "»", "¼", "½", "¾", "¿", "À",
      "Á", "Â", "Ã", "Ä", "Å", "Æ", "Ç", "È", "É", "Ê", "Ë", "Ì", "Í", "Î", "Ï", "Ð",
      "Ñ", "Ò", "Ó", "Ô", "Õ", "Ö", "×", "Ø", "Ù", "Ú", "Û", "Ü", "Ý", "Þ", "ß", "à",
      "á", "â", "ã", "ä", "å", "æ", "ç", "è", "é", "ê", "ë", "ì", "í", "î", "ï", "ð",
      "ñ", "ò", "ó", "ô", "õ", "ö", "÷", "ø", "ù", "ú", "û", "ü", "ý", "þ", "ÿ" }

\* The characters that are syntax in a pattern, not literals.
MetaChars == {"(", ")", "[", "]", "{", "}", "*", "+", "?", "|", ".", "^", "$", "\\"}

\* The number of characters of a pattern the model parses.
MaxPatternLen == 16

\* The atoms of a pattern: a literal character, the class \w, the two ends of
\* a group, and what the model does not parse.
Literal(c) == [k |-> "literal", c |-> c]
WordClass == [k |-> "word", c |-> ""]
GroupOpen == [k |-> "open", c |-> ""]
GroupClose == [k |-> "close", c |-> ""]
NotParsed == [k |-> "other", c |-> ""]

RECURSIVE ParsePattern(_, _)
\* The atoms of a pattern, a sequence of characters, from position i on: a
\* backslash before a character of the syntax makes it a literal, \w is the
\* word class, a character that is not syntax is a literal.
ParsePattern(pat, i) ==
    IF i > Len(pat) THEN <<>>
    ELSE IF pat[i] = "\\"
    THEN IF i = Len(pat) THEN <<NotParsed>>
         ELSE IF pat[i + 1] = "w" THEN <<WordClass>> \o ParsePattern(pat, i + 2)
         ELSE IF pat[i + 1] \in MetaChars THEN <<Literal(pat[i + 1])>> \o ParsePattern(pat, i + 2)
         ELSE <<NotParsed>>
    ELSE IF pat[i] = "(" THEN <<GroupOpen>> \o ParsePattern(pat, i + 1)
    ELSE IF pat[i] = ")" THEN <<GroupClose>> \o ParsePattern(pat, i + 1)
    ELSE IF pat[i] \in Chars \ MetaChars THEN <<Literal(pat[i])>> \o ParsePattern(pat, i + 1)
    ELSE <<NotParsed>>

\* The patterns of the model: at most MaxPatternLen characters, so that the
\* limits of the regex crate on the nesting of groups and on the size of the
\* compiled program are far away, and every atom parsed.
InFragment(pat) ==
    /\ Len(pat) <= MaxPatternLen
    /\ \A i \in 1..Len(ParsePattern(pat, 1)) : ParsePattern(pat, 1)[i] # NotParsed

RECURSIVE Balanced(_, _, _)
\* From atom i on, with depth groups open, every ")" closes a group and no
\* group stays open.
Balanced(atoms, i, depth) ==
    IF i > Len(atoms) THEN depth = 0
    ELSE IF atoms[i] = GroupOpen THEN Balanced(atoms, i + 1, depth + 1)
    ELSE IF atoms[i] = GroupClose THEN depth > 0 /\ Balanced(atoms, i + 1, depth - 1)
    ELSE Balanced(atoms, i + 1, depth)

\* The result of the regex parser on a pattern: "ok", "err" (RegexSet::new
\* returns Err: a group is unclosed or unopened), or "other" for a pattern
\* that is not one of the model's, of which the model says nothing: it has
\* an escape other than \w and the escaped characters of the syntax, a
\* class, a repetition, an alternation, an anchor or flags.
Syntax(pat) ==
    IF ~InFragment(pat) THEN "other"
    ELSE IF Balanced(ParsePattern(pat, 1), 1, 0) THEN "ok"
    ELSE "err"

\* The atoms of a pattern that take a character: a group only groups.
Atoms(pat) == SelectSeq(ParsePattern(pat, 1), LAMBDA a : a \notin {GroupOpen, GroupClose})

AtomMatches(atom, c) == IF atom = WordClass THEN c \in WordChars ELSE atom.c = c

\* Regex::is_match of one pattern of the model: it matches at some position
\* of the path.
PatternMatches(pat, path) ==
    LET atoms == Atoms(pat)
    IN  \E i \in 1..(Len(path) - Len(atoms) + 1) :
            \A j \in 1..Len(atoms) : AtomMatches(atoms[j], path[i + j - 1])

\* RegexSet::is_match: some pattern of the set matches.
is_match(patterns, path) == \E k \in 1..Len(patterns) : PatternMatches(patterns[k], path)

(***************************************************************************)
(* Bounds and inputs                                                       *)
(***************************************************************************)

\* The number of poll_next calls made on one body.
MaxPolls == 2
\* The number of patterns given to exclude_regex.
MaxPatterns == 2
\* The readings of the clock are 0..MaxClock.
MaxClock == 1
\* The number of fragments of a format string of SpecFormat.
MaxFrags == 4
\* The number of LoggerMiddleware values alive at once.
MaxMiddlewares == 2

\* Format strings of Spec:
\*   %{X}xi %{X}xi      %a %r %s %b %{U}i %T
\*   %% %{U}i %{T}o %{H}e %{S}e %D      %{r}a %U %t %{Y}xi
Formats ==
    { <<"%","{","X","}","x","i"," ","%","{","X","}","x","i">>,
      <<"%","a"," ","%","r"," ","%","s"," ","%","b"," ","%","{","U","}","i"," ","%","T">>,
      <<"%","%"," ","%","{","U","}","i"," ","%","{","T","}","o"," ","%","{","H","}","e"," ",
        "%","{","S","}","e"," ","%","D">>,
      <<"%","{","r","}","a"," ","%","U"," ","%","t"," ","%","{","Y","}","x","i">> }

Http11 == <<"H","T","T","P","/","1",".","1">>

\* Three requests: one with nothing to look up, one with everything, one whose
\* header value is not valid text.
Requests ==
    { [method |-> <<"G","E","T">>, path |-> <<"/">>, query |-> <<>>, version |-> Http11,
       headers |-> NoHeaders, peer |-> None, realip |-> None],
      [method |-> <<"G","E","T">>, path |-> <<"/","h">>, query |-> <<"q">>, version |-> Http11,
       headers |-> [n \in {<<"u">>} |-> HVal(TRUE, <<"A","W">>)],
       peer |-> Some(<<"1",":","8">>), realip |-> Some(<<"6","0">>)],
      [method |-> <<"G","E","T">>, path |-> <<"/","h","h">>, query |-> <<>>, version |-> Http11,
       headers |-> [n \in {<<"u">>} |-> HVal(FALSE, <<>>)],
       peer |-> Some(<<"1",":","8">>), realip |-> Some(<<"1",":","8">>)] }

Responses ==
    { [status |-> 200, headers |-> NoHeaders],
      [status |-> 404, headers |-> [n \in {<<"t">>} |-> HVal(TRUE, <<"t","t">>)]],
      [status |-> 500, headers |-> [n \in {<<"t">>} |-> HVal(FALSE, <<>>)]] }

ExcludePaths == { <<"/","h">> }
\* The exact paths of SpecExclude.
ExactPaths == ExcludePaths \cup { <<"/","h","h">> }
\* The pattern h\w, and the pattern ( that is no regex: an unclosed group.
Patterns == { <<"h", "\\", "w">>, <<"(">> }
\* The patterns of SpecExclude and SpecOwner: those, the pattern (/h) with a
\* group and the pattern \. with an escaped character of the syntax.
ExcludePatterns == Patterns \cup { <<"(", "/", "h", ")">>, <<"\\", ".">> }
\* The requests of SpecExclude: those of Requests and one whose path has a dot.
ExcludeRequests ==
    Requests \cup
    { [method |-> <<"G","E","T">>, path |-> <<"/",".","h">>, query |-> <<>>, version |-> Http11,
       headers |-> NoHeaders, peer |-> None, realip |-> None] }
Labels == { <<"X">>, <<"Y">> }

\* What poll_next of the wrapped body can return.
Pending == [k |-> "Pending", n |-> 0]
EndOfStream == [k |-> "None", n |-> 0]
BodyErr == [k |-> "Err", n |-> 0]
Chunk(n) == [k |-> "Chunk", n |-> n]
ChunkLens == {7}
BodyResults == {Pending, EndOfStream, BodyErr} \cup {Chunk(n) : n \in ChunkLens}
\* The results of a body that is ready at every poll and does not fail.
ReadyResults == {EndOfStream} \cup {Chunk(n) : n \in ChunkLens}

NoReq == [method |-> <<>>, path |-> <<>>, query |-> <<>>, version |-> <<>>,
          headers |-> NoHeaders, peer |-> None, realip |-> None]
NoResp == [status |-> 0, headers |-> NoHeaders]
NoFormat == [some |-> FALSE, toks |-> <<>>]

\* What a poll of a future returns: the inner future's and LoggerResponse's.
\* body names the type of the body of the response: "B" or "StreamLog".
NotPolled == [k |-> "NotPolled", e |-> "", body |-> ""]
PollPending == [k |-> "Pending", e |-> "", body |-> ""]
ReadyErr(e) == [k |-> "Err", e |-> e, body |-> ""]
ReadyOk(body) == [k |-> "Ok", e |-> "", body |-> body]
Errors == {"e1", "e2"}

\* What size() of a body returns: a BodySize.
NoHint == [k |-> "NotAsked", n |-> 0]
Hints == {[k |-> "Sized", n |-> 2], [k |-> "Stream", n |-> 0]}

\* The records of the log crate written by the methods of the Logger.
Warn(label) == [lvl |-> "warn", label |-> label]
Debug(label) == [lvl |-> "debug", label |-> label]

\* The state of a request that was not made yet.
NoRequest ==
    [phase |-> "idle", req |-> NoReq, resp |-> NoResp,
     live |-> [req |-> NoReq, res |-> NoResp], inner |-> NotPolled, out |-> NotPolled,
     fmt |-> NoFormat, time |-> 0, clock |-> <<>>, size |-> 0,
     hinted |-> [body |-> NoHint, log |-> NoHint], pulled |-> <<>>, obs |-> <<>>,
     lines |-> <<>>, invoked |-> {}]

(***************************************************************************)
(* State                                                                   *)
(***************************************************************************)

VARIABLES
    source,         \* the format string given to Logger::new
    format,         \* Inner.format: the compiled Format
    exclude,        \* Inner.exclude
    exclude_regex,  \* Inner.exclude_regex: the patterns of the RegexSet
    middlewares,    \* the live LoggerMiddleware values: each holds a clone of the Rc<Inner>
    panicked,       \* a panic has unwound the caller
    diag,           \* the warn! and debug! records of the last method of the Logger
    registered,     \* per label of the format, the closures given to
                    \* custom_request_replace, each once, in the order of the
                    \* last call that gave it
    phase,          \* of the request: idle, called, streaming, failed, cancelled, and
                    \* once the StreamLog is dropped: done, or muted when a format was
                    \* there and the Info level of the log was disabled
    req,            \* the ServiceRequest as it was given to call
    resp,           \* the response as the inner service returned it
    live,           \* the request and the response as their owners have them now
    inner,          \* what the last poll of the inner future returned
    out,            \* what the last poll of the LoggerResponse returned
    fmt,            \* LoggerResponse.format, then StreamLog.format: Option<Format>
    time,           \* LoggerResponse.time, then StreamLog.time
    clock,          \* the readings of OffsetDateTime::now_utc() for the request
    size,           \* StreamLog.size
    hinted,         \* the last size() of the wrapped body and of the StreamLog
    pulled,         \* what poll_next of the wrapped body has returned, in order
    obs,            \* what poll_next has returned to the consumer, in order
    lines,          \* the log lines of the request: each the writes of one render
    invoked,        \* the custom closures called for the request
    other           \* the other request in flight on the middleware: its state

config == <<source, format, exclude, exclude_regex, middlewares, diag, registered>>
request == <<phase, req, resp, live, inner, out, fmt, time, clock, size, hinted, pulled, obs,
             lines, invoked>>
vars == <<source, format, exclude, exclude_regex, middlewares, panicked, diag, registered,
          phase, req, resp, live, inner, out, fmt, time, clock, size, hinted, pulled, obs,
          lines, invoked, other>>

\* Logger::new(s): the state once the Logger is built, or after its panic.
LoggerNew(s) ==
    /\ source = s
    /\ format = FormatNew(s).toks
    /\ panicked = FormatNew(s).panic
    /\ exclude = {}
    /\ exclude_regex = <<>>
    /\ middlewares = 0
    /\ diag = <<>>
    /\ registered = [l \in Labels |-> <<>>]
    /\ phase = "idle"
    /\ req = NoReq
    /\ resp = NoResp
    /\ live = [req |-> NoReq, res |-> NoResp]
    /\ inner = NotPolled
    /\ out = NotPolled
    /\ fmt = NoFormat
    /\ time = 0
    /\ clock = <<>>
    /\ size = 0
    /\ hinted = [body |-> NoHint, log |-> NoHint]
    /\ pulled = <<>>
    /\ obs = <<>>
    /\ lines = <<>>
    /\ invoked = {}
    /\ other = NoRequest

Init == \E s \in Formats : LoggerNew(s)

(***************************************************************************)
(* The Logger builder.  Each method takes the Logger by value and starts   *)
(* with Rc::get_mut(&mut self.0).unwrap(), which panics once a middleware  *)
(* holds a clone of the Rc and succeeds again once every middleware is     *)
(* dropped.  A LoggerResponse and a StreamLog hold a clone of the Format,   *)
(* not of the Rc.  The model follows a run up to its first panic.          *)
(***************************************************************************)

\* A LoggerMiddleware is alive.
attached == middlewares > 0

\* Unique that lets the builder at a configuration that is shared.
Unique_or_shared == TRUE

\* Rc::get_mut gives the Inner: the strong count of the Rc is 1, no middleware
\* holds a clone.
Unique == middlewares = 0

\* The unwrap of the None of Rc::get_mut, whatever the requests are doing.
BuilderPanics ==
    /\ panicked' = TRUE
    /\ UNCHANGED <<config, request, other>>

\* Logger::exclude(path)
exclude_path(path) ==
    /\ ~panicked
    /\ IF Unique
       THEN /\ exclude' = exclude \cup {path}
            /\ diag' = <<>>
            /\ UNCHANGED <<source, format, exclude_regex, middlewares, panicked, registered, request, other>>
       ELSE BuilderPanics

\* Logger::exclude_regex(path): the patterns so far and the new one.  After
\* the unwrap of Rc::get_mut comes that of RegexSet::new, which panics on a
\* pattern that is no regex.
exclude_pattern(pat) ==
    /\ ~panicked
    /\ Syntax(pat) # "other"
    /\ IF Unique /\ Syntax(pat) = "ok"
       THEN /\ Len(exclude_regex) < MaxPatterns
            /\ exclude_regex' = Append(exclude_regex, pat)
            /\ diag' = <<>>
            /\ UNCHANGED <<source, format, exclude, middlewares, panicked, registered, request, other>>
       ELSE BuilderPanics

\* iter_mut().find(..): the position of the first CustomRequest token labelled
\* label; 0 when there is none.
FindCustom(toks, label) ==
    LET hits == {i \in 1..Len(toks) : toks[i].k = "CustomRequest" /\ toks[i].s = label}
    IN  IF hits = {} THEN 0 ELSE CHOOSE i \in hits : \A j \in hits : i <= j

\* ReplaceFn that binds only a token that has no closure yet.
ReplaceFn_keeps_first(toks, label, f) ==
    LET i == FindCustom(toks, label)
    IN  IF i = 0 \/ toks[i].f # NoFn THEN toks ELSE [toks EXCEPT ![i].f = f]

\* ReplaceFn that, finding no token labelled label, binds the first custom token.
ReplaceFn_binds_any(toks, label, f) ==
    LET i == FindCustom(toks, label)
        any == {j \in 1..Len(toks) : toks[j].k = "CustomRequest"}
    IN  IF i # 0 THEN [toks EXCEPT ![i].f = f]
        ELSE IF any = {} THEN toks
        ELSE [toks EXCEPT ![CHOOSE j \in any : \A k \in any : j <= k].f = f]

\* Logger::custom_request_replace(label, f): the format afterwards.
ReplaceFn(toks, label, f) ==
    LET i == FindCustom(toks, label)
    IN  IF i = 0 THEN toks ELSE [toks EXCEPT ![i].f = f]

\* Logger::custom_request_replace(label, f); without a token labelled label it
\* only writes a debug! diagnostic.  Any closure is taken, one that was given
\* before too.
custom_request_replace(label, f) ==
    /\ ~panicked
    /\ IF Unique
       THEN /\ format' = ReplaceFn(format, label, f)
            /\ registered' = IF FindCustom(format, label) # 0
                             THEN [registered EXCEPT
                                      ![label] = Append(SelectSeq(@, LAMBDA g : g # f), f)]
                             ELSE registered
            /\ diag' = IF FindCustom(format, label) # 0 THEN <<>> ELSE <<Debug(label)>>
            /\ UNCHANGED <<source, exclude, exclude_regex, middlewares, panicked, request, other>>
       ELSE BuilderPanics

\* The labels of the CustomRequest(label, None) tokens, in order: one warn! each.
RECURSIVE Unbound(_)
Unbound(toks) ==
    IF toks = <<>> THEN <<>>
    ELSE (IF Head(toks).k = "CustomRequest" /\ Head(toks).f = NoFn THEN <<Head(toks).s>> ELSE <<>>)
         \o Unbound(Tail(toks))

\* Logger::new_transform(service): the new middleware holds a clone of the
\* Rc<Inner>.
new_transform ==
    /\ ~panicked
    /\ middlewares < MaxMiddlewares
    /\ diag' = [i \in 1..Len(Unbound(format)) |-> Warn(Unbound(format)[i])]
    /\ middlewares' = middlewares + 1
    /\ UNCHANGED <<source, format, exclude, exclude_regex, panicked, registered, request, other>>

\* A LoggerMiddleware is dropped, and its clone of the Rc<Inner> with it; the
\* futures and the bodies it returned live on.
drop_middleware ==
    /\ ~panicked
    /\ middlewares > 0
    /\ middlewares' = middlewares - 1
    /\ UNCHANGED <<source, format, exclude, exclude_regex, diag, panicked, registered, request,
                   other>>

(***************************************************************************)
(* LoggerMiddleware::call, LoggerResponse::poll, StreamLog                 *)
(***************************************************************************)

\* Skips without the RegexSet.
Skips_exact_only(path) == path \in exclude

\* The condition of LoggerMiddleware::call that skips the request.
Skips(path) == path \in exclude \/ is_match(exclude_regex, path)

\* The closures the request phase calls.
Called(toks) == {toks[i].f : i \in {j \in 1..Len(toks) : toks[j].k = "CustomRequest" /\ toks[j].f # NoFn}}

\* call that resolves the units of the shared format in place, without a clone.
call_resolves_shared(r, now) ==
    /\ ~panicked
    /\ attached
    /\ phase \in {"idle", "done", "muted", "failed", "cancelled"}
    /\ phase' = "called"
    /\ req' = r
    /\ resp' = NoResp
    /\ live' = [req |-> r, res |-> NoResp]
    /\ inner' = NotPolled
    /\ out' = NotPolled
    /\ time' = now
    /\ clock' = <<now>>
    /\ IF Skips(r.path)
       THEN fmt' = NoFormat /\ invoked' = {} /\ format' = format
       ELSE /\ format' = ResolveRequest(format, now, r)
            /\ fmt' = [some |-> TRUE, toks |-> ResolveRequest(format, now, r)]
            /\ invoked' = Called(format)
    /\ size' = 0
    /\ hinted' = [body |-> NoHint, log |-> NoHint]
    /\ pulled' = <<>>
    /\ obs' = <<>>
    /\ lines' = <<>>
    /\ UNCHANGED <<source, exclude, exclude_regex, middlewares, diag, registered, panicked, other>>

\* LoggerMiddleware::call(req); now is the reading of OffsetDateTime::now_utc(),
\* taken in both branches.  The request then belongs to the inner service.
call(r, now) ==
    /\ ~panicked
    /\ attached
    /\ phase \in {"idle", "done", "muted", "failed", "cancelled"}
    /\ phase' = "called"
    /\ req' = r
    /\ resp' = NoResp
    /\ live' = [req |-> r, res |-> NoResp]
    /\ inner' = NotPolled
    /\ out' = NotPolled
    /\ time' = now
    /\ clock' = <<now>>
    /\ IF Skips(r.path)
       THEN fmt' = NoFormat /\ invoked' = {}
       ELSE /\ fmt' = [some |-> TRUE, toks |-> ResolveRequest(format, now, r)]
            /\ invoked' = Called(format)
    /\ size' = 0
    /\ hinted' = [body |-> NoHint, log |-> NoHint]
    /\ pulled' = <<>>
    /\ obs' = <<>>
    /\ lines' = <<>>
    /\ UNCHANGED <<config, panicked, other>>

\* poll_ok that wraps the body and leaves the response phase for later.
poll_ok_defers(res) ==
    /\ ~panicked
    /\ phase = "called"
    /\ phase' = "streaming"
    /\ resp' = res
    /\ live' = [live EXCEPT !.res = res]
    /\ inner' = ReadyOk("B")
    /\ out' = ReadyOk("StreamLog")
    /\ size' = 0
    /\ UNCHANGED <<config, panicked, other, req, fmt, time, clock, hinted, pulled, obs, lines, invoked>>

\* LoggerResponse::poll when the inner future is Ready(Ok(res)): the response
\* phase, then the body is wrapped in a StreamLog that takes format and time,
\* whether there is a format or not.
\* (The debug! of res.response().error() changes nothing and is left out.)
poll_ok(res) ==
    /\ ~panicked
    /\ phase = "called"
    /\ phase' = "streaming"
    /\ resp' = res
    /\ live' = [live EXCEPT !.res = res]
    /\ inner' = ReadyOk("B")
    /\ out' = ReadyOk("StreamLog")
    /\ fmt' = IF fmt.some THEN [some |-> TRUE, toks |-> ResolveResponse(fmt.toks, res)] ELSE fmt
    /\ size' = 0
    /\ UNCHANGED <<config, panicked, other, req, time, clock, hinted, pulled, obs, lines, invoked>>

\* poll of an error that answers it with a response of status 500.
poll_err_responds(e) ==
    /\ ~panicked
    /\ phase = "called"
    /\ phase' = "streaming"
    /\ resp' = [status |-> 500, headers |-> NoHeaders]
    /\ live' = [live EXCEPT !.res = [status |-> 500, headers |-> NoHeaders]]
    /\ inner' = ReadyErr(e)
    /\ out' = ReadyOk("StreamLog")
    /\ fmt' = IF fmt.some
              THEN [some |-> TRUE,
                    toks |-> ResolveResponse(fmt.toks, [status |-> 500, headers |-> NoHeaders])]
              ELSE fmt
    /\ UNCHANGED <<config, panicked, other, req, time, clock, size, hinted, pulled, obs, lines, invoked>>

\* LoggerResponse::poll when the inner future is Ready(Err(e)): Err(e) is returned.
poll_err(e) ==
    /\ ~panicked
    /\ phase = "called"
    /\ phase' = "failed"
    /\ inner' = ReadyErr(e)
    /\ out' = ReadyErr(e)
    /\ UNCHANGED <<config, panicked, other, req, resp, live, fmt, time, clock, size, hinted, pulled, obs,
                   lines, invoked>>

\* LoggerResponse::poll when the inner future is Pending: ready! returns Pending.
poll_pending ==
    /\ ~panicked
    /\ phase = "called"
    /\ inner' = PollPending
    /\ out' = PollPending
    /\ UNCHANGED <<config, panicked, other, phase, req, resp, live, fmt, time, clock, size, hinted,
                   pulled, obs, lines, invoked>>

\* The LoggerResponse is dropped before it is ready: its format goes with it.
cancel ==
    /\ ~panicked
    /\ phase = "called"
    /\ phase' = "cancelled"
    /\ UNCHANGED <<config, panicked, other, req, resp, live, inner, out, fmt, time, clock, size, hinted,
                   pulled, obs, lines, invoked>>

\* poll_next that also emits the line when the body signals its end.
poll_next_logs_at_end(v) ==
    /\ ~panicked
    /\ phase = "streaming"
    /\ Len(obs) < MaxPolls
    /\ size' = IF v.k = "Chunk" THEN size + v.n ELSE size
    /\ pulled' = Append(pulled, v)
    /\ obs' = Append(obs, v)
    /\ lines' = IF v.k = "None" /\ fmt.some
                THEN Append(lines, RenderAll(fmt.toks, size, time,
                                             [i \in 1..Len(fmt.toks) |-> time]))
                ELSE lines
    /\ UNCHANGED <<config, panicked, other, phase, req, resp, live, inner, out, fmt, time, clock, hinted,
                   invoked>>

\* poll_next that stores the length of the chunk instead of adding it.
poll_next_assigns(v) ==
    /\ ~panicked
    /\ phase = "streaming"
    /\ Len(obs) < MaxPolls
    /\ size' = IF v.k = "Chunk" THEN v.n ELSE size
    /\ pulled' = Append(pulled, v)
    /\ obs' = Append(obs, v)
    /\ UNCHANGED <<config, panicked, other, phase, req, resp, live, inner, out, fmt, time, clock, hinted,
                   lines, invoked>>

\* poll_next that turns an error of the wrapped body into the end of the stream.
poll_next_ends_on_error(v) ==
    /\ ~panicked
    /\ phase = "streaming"
    /\ Len(obs) < MaxPolls
    /\ size' = IF v.k = "Chunk" THEN size + v.n ELSE size
    /\ pulled' = Append(pulled, v)
    /\ obs' = Append(obs, IF v.k = "Err" THEN EndOfStream ELSE v)
    /\ UNCHANGED <<config, panicked, other, phase, req, resp, live, inner, out, fmt, time, clock, hinted,
                   lines, invoked>>

\* StreamLog::poll_next when the wrapped body returns v: v is returned as it is.
poll_next(v) ==
    /\ ~panicked
    /\ phase = "streaming"
    /\ Len(obs) < MaxPolls
    /\ size' = IF v.k = "Chunk" THEN size + v.n ELSE size
    /\ pulled' = Append(pulled, v)
    /\ obs' = Append(obs, v)
    /\ UNCHANGED <<config, panicked, other, phase, req, resp, live, inner, out, fmt, time, clock, hinted,
                   lines, invoked>>

\* StreamLog::size when size() of the wrapped body returns h.
size_hint(h) ==
    /\ ~panicked
    /\ phase = "streaming"
    /\ hinted' = [body |-> h, log |-> h]
    /\ UNCHANGED <<config, panicked, other, phase, req, resp, live, inner, out, fmt, time, clock, size,
                   pulled, obs, lines, invoked>>

\* The inner service, which was given the request by self.service.call(req),
\* changes it.
inner_changes_request(r) ==
    /\ ~panicked
    /\ phase \in {"called", "streaming"}
    /\ r # live.req
    /\ live' = [live EXCEPT !.req = r]
    /\ UNCHANGED <<config, panicked, other, phase, req, resp, inner, out, fmt, time, clock, size, hinted,
                   pulled, obs, lines, invoked>>

\* A later stage of the pipeline, which was given the response by poll,
\* changes its status and headers.
outer_changes_response(res) ==
    /\ ~panicked
    /\ phase = "streaming"
    /\ res # live.res
    /\ live' = [live EXCEPT !.res = res]
    /\ UNCHANGED <<config, panicked, other, phase, req, resp, inner, out, fmt, time, clock, size, hinted,
                   pulled, obs, lines, invoked>>

Clock == 0..MaxClock

\* The readings of OffsetDateTime::now_utc() that the render of toks takes:
\* one for every %T and %D, and none when the Info level of the log is
\* disabled, as log::info! then evaluates none of its arguments.
Readings(toks, info) ==
    [1..(IF info THEN ClockUnits(toks, Len(toks)) ELSE 0) -> Clock]

\* drop that resolves the compiled format from the request and the response
\* as they are when the wrapper is dropped.
drop_resolves_late(nows, info) ==
    /\ ~panicked
    /\ phase = "streaming"
    /\ nows \in Readings(IF fmt.some THEN fmt.toks ELSE <<>>, info)
    /\ phase' = IF fmt.some /\ ~info THEN "muted" ELSE "done"
    /\ lines' = IF fmt.some /\ info
                THEN Append(lines,
                            RenderAll(ResolveResponse(ResolveRequest(format, time, live.req),
                                                      live.res),
                                      size, time, nows))
                ELSE lines
    /\ clock' = clock \o nows
    /\ UNCHANGED <<config, panicked, other, req, resp, live, inner, out, fmt, time, size, hinted, pulled,
                   obs, invoked>>

\* PinnedDrop for StreamLog.  info tells whether the Info level of the log is
\* enabled: log::info! calls the closure of the line only then.  nows are the
\* readings of the clock that render takes, one for every %T and %D unit in
\* the order of the units.
drop(nows, info) ==
    /\ ~panicked
    /\ phase = "streaming"
    /\ nows \in Readings(IF fmt.some THEN fmt.toks ELSE <<>>, info)
    /\ phase' = IF fmt.some /\ ~info THEN "muted" ELSE "done"
    /\ lines' = IF fmt.some /\ info
                THEN Append(lines, RenderAll(fmt.toks, size, time, nows))
                ELSE lines
    /\ clock' = clock \o nows
    /\ UNCHANGED <<config, panicked, other, req, resp, live, inner, out, fmt, time, size, hinted, pulled,
                   obs, invoked>>

\* The readings a drop may be given for the request as it is.
Nows(info) == Readings(IF fmt.some THEN fmt.toks ELSE <<>>, info)

\* The readings of a clock that stands at 0.
Zeros == {n \in Nows(TRUE) : \A i \in 1..Len(n) : n[i] = 0}

\* The executor turns from this request to the other one in flight on the same
\* LoggerMiddleware: each has its own LoggerResponse and StreamLog.
switch ==
    /\ ~panicked
    /\ attached
    /\ other' = [phase |-> phase, req |-> req, resp |-> resp, live |-> live, inner |-> inner,
                 out |-> out, fmt |-> fmt, time |-> time, clock |-> clock, size |-> size,
                 hinted |-> hinted, pulled |-> pulled, obs |-> obs, lines |-> lines,
                 invoked |-> invoked]
    /\ phase' = other.phase
    /\ req' = other.req
    /\ resp' = other.resp
    /\ live' = other.live
    /\ inner' = other.inner
    /\ out' = other.out
    /\ fmt' = other.fmt
    /\ time' = other.time
    /\ clock' = other.clock
    /\ size' = other.size
    /\ hinted' = other.hinted
    /\ pulled' = other.pulled
    /\ obs' = other.obs
    /\ lines' = other.lines
    /\ invoked' = other.invoked
    /\ UNCHANGED <<config, panicked>>

(***************************************************************************)
(* Spec: one Logger, built and configured, then one LoggerMiddleware that  *)
(* serves one request after another.  The middleware is dropped only       *)
(* before its first request, so that the configuration a request was       *)
(* served under is the configuration of the Logger; SpecOwner drops the    *)
(* restriction.  The body is ready at every poll; SpecBody has the bodies   *)
(* that are pending or fail.                                               *)
(***************************************************************************)

Next ==
    \/ \E p \in ExcludePaths : exclude_path(p)
    \/ \E p \in Patterns : exclude_pattern(p)
    \/ \E l \in Labels, f \in Callbacks : custom_request_replace(l, f)
    \/ ~attached /\ new_transform
    \/ phase = "idle" /\ drop_middleware
    \/ \E r \in Requests, t \in Clock : call(r, t)
    \/ \E res \in Responses : poll_ok(res)
    \/ \E e \in Errors : poll_err(e)
    \/ poll_pending
    \/ cancel
    \/ \E v \in ReadyResults : poll_next(v)
    \/ \E info \in BOOLEAN : \E nows \in Nows(info) : drop(nows, info)

Spec == Init /\ [][Next]_vars

(***************************************************************************)
(* SpecFormat: Format::new on every format string of up to MaxFrags        *)
(* fragments, each then attached as it is and rendered for a request with  *)
(* nothing to look up and for one with everything.                         *)
(***************************************************************************)

Fragments ==
    { <<"%">>, <<"{","r","}">>, <<"{","X","}">>, <<"{">>, <<"a">>, <<"x">>, <<"i">>, <<"P">>, <<"z">> }

RECURSIVE FragStrings(_)
FragStrings(n) ==
    IF n = 0 THEN {<<>>}
    ELSE LET S == FragStrings(n - 1) IN S \cup {s \o f : s \in S, f \in Fragments}

FormatRequests == {r \in Requests : r.path \in {<<"/">>, <<"/","h">>}}
FormatResponses == {r \in Responses : r.status = 200}

InitFormat == \E s \in FragStrings(MaxFrags) : LoggerNew(s)

NextFormat ==
    \/ ~attached /\ new_transform
    \/ \E r \in FormatRequests : call(r, 0)
    \/ \E res \in FormatResponses : poll_ok(res)
    \/ \E nows \in Zeros : drop(nows, TRUE)

SpecFormat == InitFormat /\ [][NextFormat]_vars

(***************************************************************************)
(* SpecBody: the body of the response behind the StreamLog.  The Logger is *)
(* attached as it was built; the wrapped body returns chunks of two        *)
(* lengths, Pending, an error or its end, and is asked for its size.       *)
(***************************************************************************)

\* %s %b %{Missing}i
TestFormat == <<"%","s"," ","%","b"," ","%","{","M","i","s","s","i","n","g","}","i">>

\* %T %D
TwoClockFormat == <<"%","T"," ","%","D">>

BodyFormats == Formats \cup {TestFormat, TwoClockFormat}
BodyPolls == BodyResults \cup {Chunk(2)}

InitBody == \E s \in BodyFormats : LoggerNew(s)

NextBody ==
    \/ ~attached /\ new_transform
    \/ \E r \in Requests, t \in Clock : call(r, t)
    \/ \E res \in Responses : poll_ok(res)
    \/ \E v \in BodyPolls : poll_next(v)
    \/ \E h \in Hints : size_hint(h)
    \/ \E nows \in Nows(TRUE) : drop(nows, TRUE)

SpecBody == InitBody /\ [][NextBody]_vars

(***************************************************************************)
(* SpecLive: the request and the response go on changing in the hands of   *)
(* their owners while the request is served.                               *)
(***************************************************************************)

InitLive == \E s \in Formats : LoggerNew(s)

NextLive ==
    \/ ~attached /\ new_transform
    \/ \E r \in Requests, t \in Clock : call(r, t)
    \/ \E r \in Requests : inner_changes_request(r)
    \/ \E res \in Responses : poll_ok(res)
    \/ \E res \in Responses : outer_changes_response(res)
    \/ \E v \in BodyResults : poll_next(v)
    \/ \E nows \in Nows(TRUE) : drop(nows, TRUE)

SpecLive == InitLive /\ [][NextLive]_vars

(***************************************************************************)
(* SpecTwo: two requests in flight on one LoggerMiddleware.  The service   *)
(* is single-threaded (the Logger holds an Rc), so the requests interleave *)
(* between calls, polls and drops, in any order.                           *)
(***************************************************************************)

TwoResponses == {r \in Responses : r.status \in {200, 404}}
TwoPolls == {Chunk(2), Chunk(7)}

InitTwo == \E s \in Formats : LoggerNew(s)

NextTwo ==
    \/ ~attached /\ new_transform
    \/ \E r \in FormatRequests : call(r, 0)
    \/ \E res \in TwoResponses : poll_ok(res)
    \/ \E v \in TwoPolls : poll_next(v)
    \/ \E nows \in Zeros : drop(nows, TRUE)
    \/ switch

SpecTwo == InitTwo /\ [][NextTwo]_vars

(***************************************************************************)
(* SpecOwner: the owner of the Logger goes on using it while requests are  *)
(* served.  The builder is called, middlewares are made and dropped in     *)
(* every phase of a request, and a LoggerResponse or a StreamLog outlives  *)
(* the middleware that returned it.                                        *)
(***************************************************************************)

\* %U %{X}xi
OwnerFormat == <<"%","U"," ","%","{","X","}","x","i">>

InitOwner == LoggerNew(OwnerFormat)

NextOwner ==
    \/ \E p \in ExcludePaths : exclude_path(p)
    \/ \E p \in ExcludePatterns : exclude_pattern(p)
    \/ \E l \in Labels, f \in Callbacks : custom_request_replace(l, f)
    \/ new_transform
    \/ drop_middleware
    \/ \E r \in FormatRequests : call(r, 0)
    \/ \E res \in FormatResponses : poll_ok(res)
    \/ \E nows \in Zeros : drop(nows, TRUE)

SpecOwner == InitOwner /\ [][NextOwner]_vars

(***************************************************************************)
(* SpecExclude: the exclusion filter.  Exact paths and patterns are given  *)
(* one after the other, among them a pattern with a group and a pattern    *)
(* that is no regex; then requests are served, answered or failed, their   *)
(* bodies polled and dropped.                                              *)
(***************************************************************************)

InitExclude == LoggerNew(OwnerFormat)

NextExclude ==
    \/ \E p \in ExactPaths : exclude_path(p)
    \/ \E p \in ExcludePatterns : exclude_pattern(p)
    \/ ~attached /\ new_transform
    \/ \E r \in ExcludeRequests : call(r, 0)
    \/ \E res \in FormatResponses : poll_ok(res)
    \/ \E e \in Errors : poll_err(e)
    \/ \E v \in ReadyResults : poll_next(v)
    \/ \E info \in BOOLEAN : \E nows \in Nows(info) : drop(nows, info)

SpecExclude == InitExclude /\ [][NextExclude]_vars

(***************************************************************************)
(* Properties                                                              *)
(***************************************************************************)

\* The request is over: its body wrapper was dropped, its future returned an
\* error, or its future was dropped.
Over == phase \in {"done", "muted", "failed", "cancelled"}

\* The exclusion of the data model: the path is a member of the exact set or
\* some pattern matches it.
Excluded(path) ==
    \/ \E p \in exclude : p = path
    \/ \E k \in DOMAIN exclude_regex : PatternMatches(exclude_regex[k], path)

\* The text of the log line of the request.
Line == Flatten(lines[1])

\* The sum of the lengths of the chunks among the results the consumer got.
RECURSIVE SumChunks(_)
SumChunks(results) ==
    IF results = <<>> THEN 0
    ELSE (IF Head(results).k = "Chunk" THEN Head(results).n ELSE 0) + SumChunks(Tail(results))

\* C1: for a request that is not excluded and whose inner service produced a
\* response, no line is emitted while the future is pending or the body wrapper
\* is alive (whatever the body has returned, its end included), and exactly one
\* line has been emitted once the wrapper is dropped, however much of the body
\* was pulled.  (The line is the one handed to log::info!; with the Info level
\* disabled the log takes none, and the request is muted instead of done.)
C1_EmittedOnceAtDrop ==
    /\ phase \in {"called", "streaming"} => lines = <<>>
    /\ phase = "done" /\ ~Excluded(req.path) => Len(lines) = 1
    /\ phase = "muted" => lines = <<>> /\ Len(clock) = 1

\* A body drained to its end, then dropped: one line.
C1_Witness ==
    /\ phase = "done" /\ ~Excluded(req.path)
    /\ obs = <<Chunk(7), EndOfStream>>
    /\ Len(lines) = 1

\* C2: every request that is not excluded has yielded exactly one log line
\* once it is over, whether a response was returned, the inner service
\* returned an error, or the future was dropped early.
C2_OneLinePerRequest == Over /\ ~Excluded(req.path) => Len(lines) = 1

\* C3: a request is skipped (it gets no per-request format) if and only if
\* its path is in the exact set or matches a pattern, and a skipped request
\* never has a log line.
C3_SkippedIffExcluded ==
    phase # "idle" =>
        /\ fmt.some <=> ~Excluded(req.path)
        /\ Excluded(req.path) => lines = <<>>

\* Two patterns were given one after the other and one exact path, which is
\* not the path of the request; the path matches the second pattern alone;
\* the body of the request was polled and dropped: no line.
C3_Witness ==
    /\ phase = "done"
    /\ exclude = { <<"/","h","h">> }
    /\ exclude_regex = << <<"h", "\\", "w">>, <<"(", "/", "h", ")">> >>
    /\ req.path = <<"/","h">>
    /\ ~PatternMatches(exclude_regex[1], req.path) /\ PatternMatches(exclude_regex[2], req.path)
    /\ obs # <<>>
    /\ lines = <<>>

\* C4: the counter is the sum of the lengths of the chunks that poll_next has
\* returned, and the value written for each %b is that sum in decimal, also
\* when the body was abandoned.
C4_SizeIsBytesPulled ==
    /\ phase = "streaming" => size = SumChunks(obs)
    /\ phase = "done" /\ fmt.some =>
           \A i \in 1..Len(format) :
               format[i].k = "ResponseSize" => lines[1][i] = ToDecimal(SumChunks(obs))

\* Two chunks pulled and the body dropped before its end: %b is 14.
C4_Witness ==
    /\ phase = "done" /\ fmt.some
    /\ obs = <<Chunk(7), Chunk(7)>>
    /\ \E i \in 1..Len(format) : format[i].k = "ResponseSize" /\ lines[1][i] = <<"1", "4">>

\* C5: Format::new returns a token sequence for every format string: the
\* construction of the Logger never panics.
C5_CompilationTotal == ~panicked

\* Every "%" of s is the last character or is followed by a character that
\* starts no directive.
NoDirective(s) ==
    \A i \in 1..Len(s) :
        s[i] = "%" => CharAt(s, i + 1) \notin {"%", "a", "t", "r", "s", "b", "U", "T", "D", "{"}

\* C6: a format string with no recognized directive renders as itself: a
\* trailing "%" and a "%" before an unrecognized character are kept.
C6_LiteralVerbatim ==
    phase = "done" /\ fmt.some /\ NoDirective(source) => Line = source

\* Every "%" of s is the first or the second of a pair "%%".
RECURSIVE AllEscaped(_)
AllEscaped(s) ==
    IF s = <<>> THEN TRUE
    ELSE IF Head(s) # "%" THEN AllEscaped(Tail(s))
    ELSE Len(s) >= 2 /\ s[2] = "%" /\ AllEscaped(Tail(Tail(s)))

\* s with each pair "%%" replaced by "%".
RECURSIVE Unescape(_)
Unescape(s) ==
    IF s = <<>> THEN <<>>
    ELSE IF Head(s) = "%" /\ Len(s) >= 2 THEN <<"%">> \o Unescape(Tail(Tail(s)))
    ELSE <<Head(s)>> \o Unescape(Tail(s))

\* The number of "%" that end at position p of s, p included.
RECURSIVE PercentRun(_, _)
PercentRun(s, p) == IF p >= 1 /\ s[p] = "%" THEN 1 + PercentRun(s, p - 1) ELSE 0

\* The positions of s where a pair "%%" starts: a "%" followed by a "%", after
\* an even number of "%".
EscapeStarts(s) ==
    {p \in 1..(Len(s) - 1) : s[p] = "%" /\ s[p + 1] = "%" /\ PercentRun(s, p - 1) % 2 = 0}

\* The line that format string s gives for the request and response at hand.
LineOf(s) ==
    Flatten(RenderAll(ResolveResponse(ResolveRequest(FormatNew(s).toks, time, req), resp),
                      size, time, [i \in 1..Len(s) |-> time]))

\* C7: each pair "%%" of the format string renders as one "%" and takes
\* nothing else: the line is the line of the text before the pair, "%", and
\* the line of the text after it; a format string whose only "%" are such
\* pairs renders as itself with each pair replaced by "%", directive-like
\* text after a pair included.
C7_PercentEscape ==
    phase = "done" /\ fmt.some =>
        /\ AllEscaped(source) => Line = Unescape(source)
        /\ \A p \in EscapeStarts(source) :
               Line = LineOf(Slice(source, 1, p)) \o <<"%">>
                          \o LineOf(Slice(source, p + 2, Len(source) + 1))

\* %%{r}a for a request whose real address is known renders as %{r}a.
C7_Witness ==
    /\ phase = "done" /\ fmt.some
    /\ source = <<"%", "%", "{", "r", "}", "a">>
    /\ req.realip.some
    /\ Line = <<"%", "{", "r", "}", "a">>

\* The closure given last to custom_request_replace for label l.
Latest(l) == registered[l][Len(registered[l])]

\* C8: once a closure was registered for a label of the format, every token
\* with that label writes the value of the closure registered last.
C8_EveryOccurrence ==
    phase = "done" /\ fmt.some =>
        \A l \in Labels : registered[l] # <<>> =>
            \A i \in 1..Len(format) :
                format[i].k = "CustomRequest" /\ format[i].s = l
                    => lines[1][i] = CallFn(Latest(l), req)

\* C9: after two registrations for the same label, the token the label is bound
\* to writes the value of the second closure, and the first closure is not
\* called for the request.
C9_LatestReplaces ==
    phase = "done" /\ fmt.some =>
        \A l \in Labels : registered[l] # <<>> =>
            /\ lines[1][FindCustom(format, l)] = CallFn(Latest(l), req)
            /\ \A k \in 1..(Len(registered[l]) - 1) : registered[l][k] \notin invoked

\* f then g registered for X: the line starts with g's value and only g was called.
C9_Witness ==
    /\ phase = "done" /\ fmt.some
    /\ registered[<<"X">>] = <<"f", "g">>
    /\ lines[1][1] = CallFn("g", req)
    /\ invoked = {"g"}

\* The lookup of token ft fails for the request and its response.
LookupFails(ft) ==
    \/ ft.k = "RequestHeader" /\ (ft.s \notin DOMAIN req.headers \/ ~req.headers[ft.s].valid)
    \/ ft.k = "ResponseHeader" /\ (ft.s \notin DOMAIN resp.headers \/ ~resp.headers[ft.s].valid)
    \/ ft.k = "EnvironHeader" /\ ft.s \notin DOMAIN Env
    \/ ft.k = "CustomRequest" /\ ft.f = NoFn
    \/ ft.k = "RemoteAddr" /\ ~req.peer.some
    \/ ft.k = "RealIpRemoteAddr" /\ ~req.realip.some

\* C10: every token whose lookup fails writes exactly "-", and the request is
\* served to its end with its one line: a failed lookup is no error of poll,
\* which returned the response, and leaves no write empty.
C10_SentinelOnFailure ==
    phase = "done" /\ fmt.some =>
        /\ out.k = "Ok" /\ Len(lines) = 1 /\ Len(lines[1]) = Len(format)
        /\ \A i \in 1..Len(format) : LookupFails(format[i]) => lines[1][i] = Sentinel

\* %% %{U}i %{T}o %{H}e %{S}e %D with no request header, a response header that
\* is not valid text and H unset.
C10_Witness ==
    /\ phase = "done" /\ fmt.some
    /\ req.headers = NoHeaders /\ resp.status = 500
    /\ time = 0
    /\ Line = <<"%"," ","-"," ","-"," ","-"," ","v"," ","0",".","0","0","0","0","0","0">>

\* The kinds of token that the response phase resolves.
ResponseKinds == {"ResponseStatus", "ResponseHeader"}

\* C11: when the inner future resolves to an error, the LoggerResponse
\* resolves to that same error; the format is as the request phase left it (no
\* token of the response phase was resolved), and there is no StreamLog: no
\* body is returned, polled, counted or logged.
C11_ErrorUnchanged ==
    inner.k = "Err" =>
        /\ out = inner
        /\ phase = "failed"
        /\ fmt.some => fmt.toks = ResolveRequest(format, time, req)
        /\ out.body # "StreamLog" /\ resp = NoResp
        /\ pulled = <<>> /\ size = 0 /\ lines = <<>>

\* The inner service fails with e2 for a request whose format still has a
\* token of the response phase.
C11_Witness ==
    /\ phase = "failed" /\ inner = ReadyErr("e2") /\ out = ReadyErr("e2")
    /\ fmt.some
    /\ \E i \in 1..Len(fmt.toks) : fmt.toks[i].k \in ResponseKinds

\* C12: what the consumer gets from poll_next of the StreamLog is, result by
\* result, what the wrapped body returned, and size() of the StreamLog is
\* size() of the wrapped body; while the body is polled the format and the
\* start time of the StreamLog stay as poll left them, and the counter is the
\* sum of the chunks.
C12_Passthrough ==
    /\ obs = pulled
    /\ hinted.log = hinted.body
    /\ phase = "streaming" =>
           /\ size = SumChunks(pulled)
           /\ time = clock[1]
           /\ fmt.some => fmt.toks = ResolveResponse(ResolveRequest(format, time, req), resp)

\* Two chunks of different length pulled in order and the size asked for.
C12_Witness ==
    /\ phase = "streaming"
    /\ pulled = <<Chunk(2), Chunk(7)>> /\ obs = <<Chunk(2), Chunk(7)>>
    /\ hinted.body = [k |-> "Sized", n |-> 2] /\ hinted.log = [k |-> "Sized", n |-> 2]
    /\ size = 9

\* The readings of the clock that render took for the line, in order: those
\* after the reading of call.
RenderClocks == Tail(clock)

\* The value of the i-th token of the compiled format for the request: what
\* it writes once the request phase, the response phase and render have dealt
\* with it, render with the reading it took for this token.
TokenValue(i) ==
    render(render_response(render_request(format[i], time, req), resp), size, time,
           ReadingOf(format, RenderClocks, i))

\* The values of the first n tokens, one after the other, as one text.
RECURSIVE Concatenation(_)
Concatenation(n) ==
    IF n = 0 THEN <<>> ELSE Concatenation(n - 1) \o TokenValue(n)

\* The body was pulled to its end and gave two bytes.
TwoBytesPulled ==
    /\ pulled # <<>> /\ pulled[Len(pulled)] = EndOfStream
    /\ SumChunks(pulled) = 2

\* C13: the line has one write per token of the compiled format, the i-th
\* write is the value of the i-th token, and its text is the values one after
\* the other; for the format "%s %b %{Missing}i", a response of status 200
\* whose 2-byte body was pulled to its end and a request with no Missing
\* header the text is "200 2 -".
C13_Concatenation ==
    phase = "done" /\ fmt.some =>
        /\ Len(lines) = 1 /\ Len(lines[1]) = Len(format)
        /\ \A i \in 1..Len(format) : lines[1][i] = TokenValue(i)
        /\ Line = Concatenation(Len(format))
        /\ (source = TestFormat /\ resp.status = 200 /\ TwoBytesPulled
                /\ <<"m","i","s","s","i","n","g">> \notin DOMAIN req.headers)
               => Line = <<"2","0","0"," ","2"," ","-">>

\* "%s %b %{Missing}i", status 200, the chunk of two bytes and the end pulled.
C13_Witness ==
    /\ phase = "done" /\ fmt.some
    /\ source = TestFormat /\ resp.status = 200
    /\ pulled = <<Chunk(2), EndOfStream>>
    /\ Line = <<"2","0","0"," ","2"," ","-">>

\* The bytes of the header lines of headers: name, ": ", value, CRLF.
RECURSIVE HeaderBytes(_, _)
HeaderBytes(headers, names) ==
    IF names = {} THEN 0
    ELSE LET n == CHOOSE x \in names : TRUE
         IN  Len(n) + 2 + Len(headers[n].v) + 2 + HeaderBytes(headers, names \ {n})

\* The bytes of the head of response res on the wire: the status line, the
\* header lines and the empty line.
HeadBytes(res) ==
    Len(Http11) + 1 + Len(ToDecimal(res.status)) + 2
        + HeaderBytes(res.headers, DOMAIN res.headers) + 2

\* C14: the value written for %b is the size of the response with its HTTP
\* headers: the bytes of the head plus the bytes of the body that were pulled.
C14_SizeIncludesHeaders ==
    phase = "done" /\ fmt.some =>
        \A i \in 1..Len(format) :
            format[i].k = "ResponseSize"
                => lines[1][i] = ToDecimal(HeadBytes(resp) + SumChunks(pulled))

\* The kinds of token that the request phase resolves.
RequestKinds ==
    {"RequestLine", "UrlPath", "RequestTime", "RemoteAddr", "RealIpRemoteAddr",
     "RequestHeader", "CustomRequest"}

\* C15: for a request that is not excluded, while the inner service has the
\* request and has not answered, the format is exactly the request-phase
\* resolution of the compiled format and there is no response yet; once the
\* body is wrapped the format is the response-phase resolution of that, made
\* from the response the inner service returned; no line exists before the
\* wrapper is dropped, and the line written at the drop shows the count of
\* every chunk that was pulled.
C15_PhasesOrdered ==
    phase # "idle" /\ ~Excluded(req.path) =>
        /\ phase = "called" =>
               /\ fmt = [some |-> TRUE, toks |-> ResolveRequest(format, time, req)]
               /\ resp = NoResp /\ out.k # "Ok" /\ lines = <<>>
        /\ phase = "streaming" =>
               /\ inner.k = "Ok" /\ out.body = "StreamLog"
               /\ fmt = [some |-> TRUE,
                         toks |-> ResolveResponse(ResolveRequest(format, time, req), resp)]
               /\ lines = <<>>
        /\ phase = "done" =>
               lines = <<RenderAll(fmt.toks, SumChunks(pulled), time, RenderClocks)>>

\* A request with request and response tokens, two chunks pulled, then dropped.
C15_Witness ==
    /\ phase = "done" /\ ~Excluded(req.path)
    /\ \E i \in 1..Len(format) : format[i].k \in RequestKinds
    /\ \E i \in 1..Len(format) : format[i].k \in ResponseKinds
    /\ pulled = <<Chunk(7), Chunk(7)>>
    /\ Len(lines) = 1

\* The kinds of token that render has an arm for and neither phase touches.
KeptKinds == {"Str", "Percent", "ResponseSize", "Time", "TimeMillis", "EnvironHeader"}

\* The kinds of the tokens of a per-request format.
KindsOf(toks) == {toks[i].k : i \in 1..Len(toks)}

\* C16: a per-request format, which exists only once the request phase ran,
\* has no token of a request kind; once the response phase ran it has no token
\* of a response kind either; every resolved token is literal text; the tokens
\* of the kept kinds are the tokens of the compiled format; so every token
\* that render meets has an arm of its own.
C16_Collapse ==
    fmt.some =>
        /\ Len(fmt.toks) = Len(format)
        /\ KindsOf(fmt.toks) \cap RequestKinds = {}
        /\ phase \in {"streaming", "done", "muted"} => KindsOf(fmt.toks) \cap ResponseKinds = {}
        /\ \A i \in 1..Len(format) :
               /\ format[i].k \in KeptKinds => fmt.toks[i] = format[i]
               /\ format[i].k \in RequestKinds => fmt.toks[i].k = "Str"
               /\ format[i].k \in ResponseKinds =>
                      fmt.toks[i] = IF phase \in {"streaming", "done", "muted"}
                                    THEN render_response(format[i], resp)
                                    ELSE format[i]
        /\ phase \in {"streaming", "done", "muted"} => KindsOf(fmt.toks) \subseteq KeptKinds

\* %{r}a %U %t %{Y}xi rendered: four request kinds collapsed.
C16_Witness ==
    /\ phase = "done" /\ fmt.some
    /\ {"RealIpRemoteAddr", "UrlPath", "RequestTime", "CustomRequest"} \subseteq KindsOf(format)
    /\ KindsOf(fmt.toks) = {"Str"}
    /\ Len(lines) = 1

\* C17: the write of %s is the status and the write of %{NAME}o the header
\* value that the response had when the inner service returned it, and the
\* write of each request token is its value for the request as call got it,
\* whatever the request and the response have become since; while the body is
\* wrapped the per-request format does not follow them either.
C17_Snapshot ==
    /\ phase = "streaming" /\ fmt.some =>
           fmt.toks = ResolveResponse(ResolveRequest(format, time, req), resp)
    /\ phase = "done" /\ fmt.some =>
           \A i \in 1..Len(format) :
               /\ format[i].k = "ResponseStatus" => lines[1][i] = ToDecimal(resp.status)
               /\ format[i].k = "ResponseHeader"
                      => lines[1][i] = HeaderText(resp.headers, format[i].s)
               /\ format[i].k \in RequestKinds
                      => lines[1][i] = render_request(format[i], time, req).s

\* GET / answered with 200 is logged as such although, before the drop, the
\* request has become GET /h?q and the response a 500.
C17_Witness ==
    /\ phase = "done" /\ fmt.some
    /\ req.path = <<"/">> /\ live.req.path = <<"/","h">>
    /\ resp.status = 200 /\ live.res.status = 500
    /\ \E i \in 1..Len(format) :
           format[i].k = "ResponseStatus" /\ lines[1][i] = <<"2","0","0">>
    /\ \E i \in 1..Len(format) :
           format[i].k = "RequestLine"
               /\ lines[1][i] = <<"G","E","T"," ","/"," ">> \o Http11

\* C18: for a request that the exclusion filter matches, nothing of the
\* logging is done: no token is resolved and no closure called, the clock is
\* never read, and the body of the response is not wrapped in a StreamLog, so
\* no byte of it is counted.
C18_ExcludedUntouched ==
    phase # "idle" /\ Excluded(req.path) =>
        /\ fmt = NoFormat /\ invoked = {}
        /\ clock = <<>>
        /\ out.body # "StreamLog" /\ size = 0

\* C19: every call of custom_request_replace with a label that no custom token
\* of the compiled format has returns without a panic and leaves the compiled
\* format with its bindings, the exact set and the patterns as they were.
C19_UnmatchedNoEffect ==
    [][\A l \in Labels, f \in Callbacks :
           custom_request_replace(l, f) /\ FindCustom(format, l) = 0
               => /\ ~panicked'
                  /\ UNCHANGED <<format, exclude, exclude_regex, registered>>]_vars

\* C19, for a Logger that no middleware shares: such a call returns without a
\* panic, writes the one debug! record for the label, and leaves the compiled
\* format with its bindings, the exact set and the patterns as they were.
C19_UnmatchedNoEffectUnshared ==
    [][\A l \in Labels, f \in Callbacks :
           custom_request_replace(l, f) /\ FindCustom(format, l) = 0 /\ ~attached
               => /\ ~panicked'
                  /\ diag' = <<Debug(l)>>
                  /\ UNCHANGED <<format, exclude, exclude_regex, registered, middlewares>>]_vars

\* After f was bound to X and a path excluded, a closure was given for Y, which
\* the format does not have: the binding and the exclusion are there, and the
\* debug! record is the last diagnostic.
C19_Witness ==
    /\ ~attached /\ ~panicked
    /\ FindCustom(format, <<"Y">>) = 0
    /\ diag = <<Debug(<<"Y">>)>>
    /\ registered[<<"X">>] = <<"f">> /\ format[1].f = "f"
    /\ exclude # {}

\* C20: the write of %T is the reading of the clock taken by render minus the
\* reading taken by call, in seconds, that of %D the same in milliseconds, and
\* neither is negative.
C20_ElapsedNonNegative ==
    phase = "done" /\ fmt.some =>
        \A i \in 1..Len(format) :
            /\ format[i].k = "Time" =>
                   lines[1][i] = Fixed6(clock[1 + ClockUnits(format, i)] - clock[1])
            /\ format[i].k = "TimeMillis" =>
                   lines[1][i] = Fixed6((clock[1 + ClockUnits(format, i)] - clock[1]) * 1000)
            /\ format[i].k \in {"Time", "TimeMillis"} => Head(lines[1][i]) # "-"

\* The number of records of diagnostics that equal rec.
Records(rec) == Cardinality({i \in 1..Len(diag) : diag[i] = rec})

\* Label l has a custom placeholder in the compiled format.
HasPlaceholder(l) == \E i \in 1..Len(format) : format[i].k = "CustomRequest" /\ format[i].s = l

\* C21: once the Logger is attached, the diagnostics of new_transform hold
\* exactly one warning for each label that has a custom placeholder and no
\* closure registered, none for a label for which a closure was registered,
\* and nothing else; serving requests adds none.
C21_OneWarningPerUnboundLabel ==
    attached =>
        /\ \A l \in Labels :
               Records(Warn(l)) = IF HasPlaceholder(l) /\ registered[l] = <<>> THEN 1 ELSE 0
        /\ \A i \in 1..Len(diag) : diag[i].lvl = "warn"

\* The state of the request at hand, as a record like that of the other one.
This ==
    [phase |-> phase, req |-> req, resp |-> resp, live |-> live, inner |-> inner,
     out |-> out, fmt |-> fmt, time |-> time, clock |-> clock, size |-> size,
     hinted |-> hinted, pulled |-> pulled, obs |-> obs, lines |-> lines,
     invoked |-> invoked]

\* The format, the counter and the line of request s are made of the compiled
\* format and of the request, the response and the chunks of s alone.
OwnValues(s) ==
    LET requested == ResolveRequest(format, s.time, s.req)
        responded == ResolveResponse(requested, s.resp)
    IN  /\ s.phase = "called" /\ s.fmt.some => s.fmt.toks = requested
        /\ s.phase \in {"streaming", "done", "muted"} =>
               /\ s.size = SumChunks(s.pulled)
               /\ s.fmt.some => s.fmt.toks = responded
        /\ s.phase = "streaming" => s.lines = <<>>
        /\ s.phase = "done" /\ s.fmt.some =>
               s.lines = <<RenderAll(responded, SumChunks(s.pulled), s.time, Tail(s.clock))>>

\* C22: with two requests in flight in any interleaving, the compiled format
\* of the middleware stays the one that was attached, and the per-request
\* format, the byte count and the line of each request are those of its own
\* request, response and body.
C22_Isolation ==
    attached =>
        /\ format = FormatNew(source).toks
        /\ OwnValues(This)
        /\ OwnValues(other)

\* GET / answered 200 with 2 bytes has its line while GET /h?q, answered 404,
\* has had 7 bytes pulled through its own wrapper.
C22_Witness ==
    /\ phase = "done" /\ fmt.some /\ Len(lines) = 1
    /\ req.path = <<"/">> /\ resp.status = 200 /\ size = 2
    /\ other.phase = "streaming" /\ other.fmt.some
    /\ other.req.path = <<"/","h">> /\ other.resp.status = 404 /\ other.size = 7

\* A step of one of the three methods of the builder.
BuilderStep ==
    \/ \E p \in ExcludePaths : exclude_path(p)
    \/ \E p \in ExcludePatterns : exclude_pattern(p)
    \/ \E l \in Labels, f \in Callbacks : custom_request_replace(l, f)

\* C23: while a middleware is alive, no step changes the compiled format with
\* its bindings, the exact set or the patterns that it holds, and a step of
\* exclude, exclude_regex or custom_request_replace on the Logger is a panic,
\* in whatever phase the request is; a step of the builder that is no panic
\* is taken with no middleware alive.
C23_LiveConfigFrozen ==
    [][/\ attached =>
              /\ UNCHANGED <<format, exclude, exclude_regex, registered>>
              /\ BuilderStep => panicked'
       /\ BuilderStep /\ ~panicked' => ~attached]_vars

\* The builder was used, two middlewares were made and one of them dropped,
\* and a call of the builder while the body of a logged request was streamed
\* has panicked: the configuration still has what was set before.
C23_Witness ==
    /\ middlewares = 1 /\ panicked
    /\ phase = "streaming" /\ fmt.some
    /\ exclude # {} /\ exclude_regex # <<>>
    /\ registered[<<"X">>] = <<"f">>
    /\ format[FindCustom(format, <<"X">>)].f = "f"

====
